---- MODULE Spec2Model ----
(***************************************************************************)
(* Resumable paginated retrieval of pocket_export.py: fetch_pocket_items,  *)
(* the checkpoint file it reads, writes and removes, and the HTTP session  *)
(* with transport retries that _post goes through.                         *)
(***************************************************************************)
EXTENDS Integers, Sequences, FiniteSets, TLC

VARIABLES
    pc,           \* position of the single thread of control
    requested,    \* batch_size as passed by the caller (main: args.batch)
    batch_size,   \* the local batch_size of fetch_pocket_items
    all_items,    \* the accumulated list
    offset,       \* the local offset
    batch,        \* the list parsed from the last response
    data,         \* the last response body, as parsed by r.json()
    file,         \* content of the CHECKPOINT file, or Absent
    retriesLeft,  \* what is left of Retry(total=5) inside the current _post
    hiccups,      \* passes through the except clause for the current page
    exc,          \* the exception the except clause is handling, or "none"
    warnings,     \* number of "exceeds Pocket's 30-item cap" lines printed
    N,            \* size of the remote collection
    remote,       \* "stable": unchanging collection; "unstable": anything
    startFile,    \* history: content of the file when the run started
    startOffset,  \* history: what _read_checkpoint returned at run start
    reqOffsets,   \* history: the offsets carried by the requests of the run
    reqCounts,    \* history: the counts carried by the requests of the run
    okOffsets,    \* history: offsets of the requests answered successfully
    sent,         \* history: transport attempts made for the current page
    allRetryable, \* history: every attempt for the current page got 5xx
    ckptBefore,   \* history: content of the file when the last write began
    stoppedAt     \* history: the position where the run was cut short

vars == <<pc, requested, batch_size, all_items, offset, batch, data, file,
          retriesLeft, hiccups, exc, warnings, N, remote, startFile,
          startOffset, reqOffsets, reqCounts, okOffsets, sent, allRetryable,
          ckptBefore, stoppedAt>>

(***************************************************************************)
(* Program constants.                                                      *)
(***************************************************************************)
MAX_BATCH == 30
RetryTotal == 5

(***************************************************************************)
(* Bounds of the model.                                                    *)
(***************************************************************************)
MaxN == 4             \* the remote collection holds 0..MaxN items
MaxSmallBatch == 2    \* batch sizes 1..MaxSmallBatch are tried
MaxHiccups == 1       \* failed _post calls per page before the server answers


(***************************************************************************)
(* str(int) and int(str), on sequences of one-character strings.           *)
(***************************************************************************)
Digits == <<"0", "1", "2", "3", "4", "5", "6", "7", "8", "9">>

IsDigit(c) == \E i \in 1..10 : Digits[i] = c

DigitVal(c) == (CHOOSE i \in 1..10 : Digits[i] = c) - 1

RECURSIVE StrNat(_)
StrNat(n) == IF n < 10 THEN <<Digits[n + 1]>>
             ELSE StrNat(n \div 10) \o <<Digits[(n % 10) + 1]>>

Str(n) == IF n < 0 THEN <<"-">> \o StrNat(0 - n) ELSE StrNat(n)

RECURSIVE Strip(_)
Strip(s) == IF s = <<>> THEN s
            ELSE IF Head(s) \in {" ", "\n"} THEN Strip(Tail(s))
            ELSE IF s[Len(s)] \in {" ", "\n"} THEN Strip(SubSeq(s, 1, Len(s) - 1))
            ELSE s

RECURSIVE NatVal(_)
NatVal(s) == IF s = <<>> THEN 0
             ELSE 10 * NatVal(SubSeq(s, 1, Len(s) - 1)) + DigitVal(s[Len(s)])

AllDigits(s) == s # <<>> /\ \A i \in 1..Len(s) : IsDigit(s[i])

Unsigned(s) == IF s # <<>> /\ Head(s) \in {"-", "+"} THEN Tail(s) ELSE s

\* int(s) raises ValueError unless s is optional blanks, an optional sign and
\* one or more digits
PyIntRaises(s) == ~AllDigits(Unsigned(Strip(s)))

\* int(s), where it does not raise
PyInt(s) ==
    LET t == Strip(s)
    IN  IF Head(t) = "-" THEN 0 - NatVal(Unsigned(t)) ELSE NatVal(Unsigned(t))

\* the CHECKPOINT file: missing, or holding a text
Absent == [exists |-> FALSE, text |-> <<>>]
File(s) == [exists |-> TRUE, text |-> s]

\* faulty variant of ReadCheckpoint: the checkpoint is never read back
ReadCheckpointIgnored(f) == 0

\* _read_checkpoint(): any exception (missing file, bad content) gives 0
ReadCheckpoint(f) ==
    IF ~f.exists THEN 0
    ELSE IF PyIntRaises(f.text) THEN 0
    ELSE PyInt(f.text)

(***************************************************************************)
(* The remote side.                                                        *)
(***************************************************************************)
\* items are named by their position in the collection, 1..N
RECURSIVE Range(_, _)
Range(a, b) == IF a > b THEN <<>> ELSE <<a>> \o Range(a + 1, b)

Min(a, b) == IF a < b THEN a ELSE b
Max(a, b) == IF a > b THEN a ELSE b

\* the "total" field of a body: an integer, missing, or not an integer
Total(n) == [kind |-> "int", val |-> n]
NoTotal == [kind |-> "missing", val |-> 0]
BadTotal == [kind |-> "bad", val |-> 0]

\* the page an unchanging collection of n items gives for (off, count); an
\* offset below 0 is served as 0
StablePage(n, off, count) == Range(Max(off, 0) + 1, Min(Max(off, 0) + count, n))

\* the bodies a 2xx response to (off, count) can carry: the page of the
\* unchanging collection with its size, or, from a remote side that changes
\* or misbehaves, any run of at most count items out of at most N, any
\* reported total, or a body that does not parse
Bodies(off, count) ==
    IF remote = "stable"
    THEN {[kind |-> "json", list |-> StablePage(N, off, count), total |-> Total(N)]}
    ELSE {[kind |-> "json", list |-> Range(off + 1, off + k), total |-> t] :
             k \in 0..(IF off < N THEN Min(count, N - Max(off, 0)) ELSE 0),
             t \in {Total(n) : n \in 0..(N + 1)} \cup {NoTotal, BadTotal}}
         \cup {[kind |-> "notjson", list |-> <<>>, total |-> NoTotal],
               [kind |-> "badlist", list |-> <<>>, total |-> NoTotal]}

NoData == [kind |-> "none", list |-> <<>>, total |-> NoTotal]

BatchSizes == (1..MaxSmallBatch) \cup {MAX_BATCH, MAX_BATCH + 1, 50}

InitFiles ==
    {Absent} \cup
    {File(s) : s \in {<<>>, <<"x">>, <<"-", "1">>, <<"+", "2">>, <<"2", "\n">>,
                      <<"1", "x">>} \cup {Str(k) : k \in 0..(MaxN + 1)}}

Live == {"clamp", "read_ckpt", "request", "transport", "sleep", "parse",
         "merge", "write_open", "write_data", "check_total", "unlink"}

InLoop == {"request", "transport", "sleep", "parse", "merge", "write_open",
           "write_data", "check_total"}

Stopped == {"done", "failed", "interrupted", "crashed"}

Init ==
    /\ pc = "clamp"
    /\ requested \in BatchSizes
    /\ batch_size = requested
    /\ all_items = <<>>
    /\ offset = 0
    /\ batch = <<>>
    /\ data = NoData
    /\ file \in InitFiles
    /\ retriesLeft = 0
    /\ hiccups = 0
    /\ exc = "none"
    /\ warnings = 0
    /\ remote \in {"stable", "unstable"}
    /\ N \in IF remote = "stable" THEN 0..MaxN ELSE {MaxN}
    /\ startFile = file
    /\ startOffset = 0
    /\ reqOffsets = {}
    /\ reqCounts = {}
    /\ okOffsets = <<>>
    /\ sent = 0
    /\ allRetryable = TRUE
    /\ ckptBefore = file
    /\ stoppedAt = "none"

env == <<N, remote, requested>>
locals == <<batch_size, all_items, offset, batch, data>>
http == <<retriesLeft, hiccups, exc, sent, allRetryable>>
history == <<startFile, startOffset, reqOffsets, reqCounts, okOffsets, ckptBefore>>

(***************************************************************************)
(* fetch_pocket_items, statement by statement.                             *)
(***************************************************************************)
\* faulty variant of Clamp: the cap is announced but not applied
ClampWarnsOnly ==
    /\ pc = "clamp"
    /\ IF batch_size > MAX_BATCH
       THEN warnings' = warnings + 1
       ELSE UNCHANGED warnings
    /\ pc' = "read_ckpt"
    /\ UNCHANGED <<env, locals, file, http, history, stoppedAt>>

\* lines 145-147: clamp the batch size, with one printed line
Clamp ==
    /\ pc = "clamp"
    /\ IF batch_size > MAX_BATCH
       THEN batch_size' = MAX_BATCH /\ warnings' = warnings + 1
       ELSE UNCHANGED <<batch_size, warnings>>
    /\ pc' = "read_ckpt"
    /\ UNCHANGED <<env, all_items, offset, batch, data, file, http, history, stoppedAt>>

\* faulty variant of Start: a resumed run starts from the first item again
StartFromZero ==
    /\ pc = "read_ckpt"
    /\ all_items' = <<>>
    /\ offset' = 0
    /\ startOffset' = 0
    /\ pc' = "request"
    /\ UNCHANGED <<env, batch_size, batch, data, file, http, warnings, startFile,
                   reqOffsets, reqCounts, okOffsets, ckptBefore, stoppedAt>>

\* lines 149-154: the empty list and the starting offset
Start ==
    /\ pc = "read_ckpt"
    /\ all_items' = <<>>
    /\ offset' = ReadCheckpoint(file)
    /\ startOffset' = ReadCheckpoint(file)
    /\ pc' = "request"
    /\ UNCHANGED <<env, batch_size, batch, data, file, http, warnings, startFile,
                   reqOffsets, reqCounts, okOffsets, ckptBefore, stoppedAt>>

\* lines 156-167: the payload is built and _post hands it to the session,
\* whose adapter starts with the whole retry budget
Request ==
    /\ pc = "request"
    /\ reqOffsets' = reqOffsets \cup {offset}
    /\ reqCounts' = reqCounts \cup {batch_size}
    /\ retriesLeft' = RetryTotal
    /\ exc' = "none"
    /\ pc' = "transport"
    /\ UNCHANGED <<env, locals, file, hiccups, sent, allRetryable, warnings, startFile,
                   startOffset, okOffsets, ckptBefore, stoppedAt>>

\* one attempt answered 2xx: _post returns, raise_for_status passes, line 174
\* is next; the page's attempts are over
Respond ==
    /\ pc = "transport"
    /\ \E b \in Bodies(offset, batch_size) : data' = b
    /\ okOffsets' = Append(okOffsets, offset)
    /\ retriesLeft' = 0
    /\ hiccups' = 0
    /\ sent' = 0
    /\ allRetryable' = TRUE
    /\ pc' = "parse"
    /\ UNCHANGED <<env, batch_size, all_items, offset, batch, file, exc, warnings,
                   startFile, startOffset, reqOffsets, reqCounts, ckptBefore, stoppedAt>>

\* one attempt answered 500/502/503/504 (status_forcelist): the adapter
\* retries while the budget lasts; with raise_on_status=False the last such
\* response is returned and raise_for_status (line 168) raises HTTPError
RetryableStatus ==
    /\ pc = "transport"
    /\ sent' = sent + 1
    /\ IF retriesLeft > 0
       THEN /\ retriesLeft' = retriesLeft - 1
            /\ UNCHANGED <<pc, exc>>
       ELSE /\ hiccups < MaxHiccups
            /\ exc' = "HTTPError5xx"
            /\ pc' = "sleep"
            /\ UNCHANGED retriesLeft
    /\ UNCHANGED <<env, locals, file, hiccups, allRetryable, warnings, history, stoppedAt>>

\* one attempt lost to a connection error or a timeout: retried by the
\* adapter while the budget lasts, then raised as ConnectionError
ConnectionFails ==
    /\ pc = "transport"
    /\ sent' = sent + 1
    /\ allRetryable' = FALSE
    /\ IF retriesLeft > 0
       THEN /\ retriesLeft' = retriesLeft - 1
            /\ UNCHANGED <<pc, exc>>
       ELSE /\ hiccups < MaxHiccups
            /\ exc' = "ConnectionError"
            /\ pc' = "sleep"
            /\ UNCHANGED retriesLeft
    /\ UNCHANGED <<env, locals, file, hiccups, warnings, history, stoppedAt>>

\* one attempt answered with an error status outside status_forcelist
\* (4xx, 501): returned at once, and raise_for_status raises HTTPError
OtherErrorStatus ==
    /\ pc = "transport"
    /\ hiccups < MaxHiccups
    /\ sent' = sent + 1
    /\ allRetryable' = FALSE
    /\ exc' = "HTTPError4xx"
    /\ pc' = "sleep"
    /\ UNCHANGED <<env, locals, file, retriesLeft, hiccups, warnings, history, stoppedAt>>

\* faulty variant of Hiccup: the failed page is given up and the next one asked
HiccupSkipsPage ==
    /\ pc = "sleep"
    /\ hiccups' = hiccups + 1
    /\ offset' = offset + batch_size
    /\ pc' = "request"
    /\ UNCHANGED <<env, batch_size, all_items, batch, data, file, retriesLeft, exc, sent,
                   allRetryable, warnings, history, stoppedAt>>

\* faulty variant of Hiccup: the retry starts over with an empty list
HiccupDropsItems ==
    /\ pc = "sleep"
    /\ hiccups' = hiccups + 1
    /\ all_items' = <<>>
    /\ pc' = "request"
    /\ UNCHANGED <<env, batch_size, offset, batch, data, file, retriesLeft, exc, sent,
                   allRetryable, warnings, history, stoppedAt>>

\* lines 169-172: every RequestException is caught; print, sleep, continue
Hiccup ==
    /\ pc = "sleep"
    /\ hiccups' = hiccups + 1
    /\ pc' = "request"
    /\ UNCHANGED <<env, locals, file, retriesLeft, exc, sent, allRetryable, warnings,
                   history, stoppedAt>>

\* faulty variant of Parse: an empty batch does not leave the loop
ParseNoBreak ==
    /\ pc = "parse"
    /\ IF data.kind # "json"
       THEN /\ pc' = "failed"
            /\ stoppedAt' = "parse"
            /\ exc' = IF data.kind = "notjson" THEN "JSONDecodeError" ELSE "AttributeError"
            /\ UNCHANGED batch
       ELSE /\ batch' = data.list
            /\ pc' = "merge"
            /\ UNCHANGED <<exc, stoppedAt>>
    /\ UNCHANGED <<env, batch_size, all_items, offset, data, file, retriesLeft, hiccups,
                   sent, allRetryable, warnings, history>>

\* lines 174-177: r.json() raises on a body that is no JSON, .values() on a
\* "list" that is no mapping; an empty batch leaves the loop
Parse ==
    /\ pc = "parse"
    /\ IF data.kind # "json"
       THEN /\ pc' = "failed"
            /\ stoppedAt' = "parse"
            /\ exc' = IF data.kind = "notjson" THEN "JSONDecodeError" ELSE "AttributeError"
            /\ UNCHANGED batch
       ELSE /\ batch' = data.list
            /\ pc' = IF data.list = <<>> THEN "unlink" ELSE "merge"
            /\ UNCHANGED <<exc, stoppedAt>>
    /\ UNCHANGED <<env, batch_size, all_items, offset, data, file, retriesLeft, hiccups,
                   sent, allRetryable, warnings, history>>

\* faulty variant of Merge: the page replaces the accumulated list
MergeReplaces ==
    /\ pc = "merge"
    /\ all_items' = batch
    /\ offset' = offset + Len(batch)
    /\ ckptBefore' = file
    /\ pc' = "write_open"
    /\ UNCHANGED <<env, batch_size, batch, data, file, http, warnings, startFile,
                   startOffset, reqOffsets, reqCounts, okOffsets, stoppedAt>>

\* faulty variant of Merge: the offset advances by the page size asked for
MergeByPageSize ==
    /\ pc = "merge"
    /\ all_items' = all_items \o batch
    /\ offset' = offset + batch_size
    /\ ckptBefore' = file
    /\ pc' = "write_open"
    /\ UNCHANGED <<env, batch_size, batch, data, file, http, warnings, startFile,
                   startOffset, reqOffsets, reqCounts, okOffsets, stoppedAt>>

\* lines 178-179: extend the list, advance the offset by the page's length
Merge ==
    /\ pc = "merge"
    /\ all_items' = all_items \o batch
    /\ offset' = offset + Len(batch)
    /\ ckptBefore' = file
    /\ pc' = "write_open"
    /\ UNCHANGED <<env, batch_size, batch, data, file, http, warnings, startFile,
                   startOffset, reqOffsets, reqCounts, okOffsets, stoppedAt>>

\* line 141, first half: write_text opens the file for writing, which
\* creates or truncates it
WriteOpen ==
    /\ pc = "write_open"
    /\ file' = File(<<>>)
    /\ pc' = "write_data"
    /\ UNCHANGED <<env, locals, http, warnings, history, stoppedAt>>

\* faulty variant of WriteData: the offset before the page is written
WriteDataStale ==
    /\ pc = "write_data"
    /\ file' = File(Str(offset - Len(batch)))
    /\ pc' = "check_total"
    /\ UNCHANGED <<env, locals, http, warnings, history, stoppedAt>>

\* line 141, second half: the text is written and the file closed
WriteData ==
    /\ pc = "write_data"
    /\ file' = File(Str(offset))
    /\ pc' = "check_total"
    /\ UNCHANGED <<env, locals, http, warnings, history, stoppedAt>>

\* faulty variant of WriteFails: the error is swallowed and the loop goes on
WriteFailsIgnored ==
    /\ pc \in {"write_open", "write_data"}
    /\ exc' = "OSError"
    /\ pc' = "check_total"
    /\ UNCHANGED <<env, locals, file, retriesLeft, hiccups, sent, allRetryable, warnings,
                   history, stoppedAt>>

\* line 141 raising OSError: open refused, or the write itself failing; line
\* 180 is outside the try, so the error leaves fetch_pocket_items
WriteFails ==
    /\ pc \in {"write_open", "write_data"}
    /\ exc' = "OSError"
    /\ stoppedAt' = pc
    /\ pc' = "failed"
    /\ UNCHANGED <<env, locals, file, retriesLeft, hiccups, sent, allRetryable, warnings,
                   history>>

\* faulty variant of CheckTotal: the loop ends only once the offset is
\* beyond the total
CheckTotalStrict ==
    /\ pc = "check_total"
    /\ IF data.total.kind = "bad"
       THEN /\ pc' = "failed"
            /\ exc' = "ValueError"
            /\ stoppedAt' = "check_total"
       ELSE /\ LET total_available == IF data.total.kind = "missing" THEN offset
                                      ELSE data.total.val
               IN  pc' = IF offset > total_available THEN "unlink" ELSE "request"
            /\ UNCHANGED <<exc, stoppedAt>>
    /\ UNCHANGED <<env, locals, file, retriesLeft, hiccups, sent, allRetryable, warnings,
                   history>>

\* lines 181-185: int() of the reported total, offset when none is reported
CheckTotal ==
    /\ pc = "check_total"
    /\ IF data.total.kind = "bad"
       THEN /\ pc' = "failed"
            /\ exc' = "ValueError"
            /\ stoppedAt' = "check_total"
       ELSE /\ LET total_available == IF data.total.kind = "missing" THEN offset
                                      ELSE data.total.val
               IN  pc' = IF offset >= total_available THEN "unlink" ELSE "request"
            /\ UNCHANGED <<exc, stoppedAt>>
    /\ UNCHANGED <<env, locals, file, retriesLeft, hiccups, sent, allRetryable, warnings,
                   history>>

\* faulty variant of Unlink: the checkpoint is left behind
UnlinkSkipped ==
    /\ pc = "unlink"
    /\ pc' = "done"
    /\ UNCHANGED <<env, locals, file, http, warnings, history, stoppedAt>>

\* lines 186-188: unlink(missing_ok=True), then return all_items
Unlink ==
    /\ pc = "unlink"
    /\ file' = Absent
    /\ pc' = "done"
    /\ UNCHANGED <<env, locals, http, warnings, history, stoppedAt>>

(***************************************************************************)
(* What cuts a run short, and the next run.                                *)
(***************************************************************************)
\* KeyboardInterrupt is no RequestException: it leaves fetch_pocket_items and
\* main, and lines 294-295 exit. Raised inside write_text, the with block
\* closes the file: with what was buffered by then, or with nothing.
Interrupt ==
    /\ pc \in Live
    /\ stoppedAt' = pc
    /\ exc' = "KeyboardInterrupt"
    /\ pc' = "interrupted"
    /\ IF pc = "write_data"
       THEN file' \in {file, File(Str(offset))}
       ELSE UNCHANGED file
    /\ UNCHANGED <<env, locals, retriesLeft, hiccups, sent, allRetryable, warnings,
                   history>>

\* the process is killed, or the machine stops, inside _write_checkpoint:
\* nothing more is written (killed anywhere else, it leaves on disk what
\* Interrupt leaves there)
Crash ==
    /\ pc \in {"write_open", "write_data"}
    /\ stoppedAt' = pc
    /\ pc' = "crashed"
    /\ UNCHANGED <<env, locals, file, http, warnings, history>>

\* the script is run again, with the same arguments, on what is on disk
Rerun ==
    /\ pc \in Stopped
    /\ pc' = "clamp"
    /\ batch_size' = requested
    /\ all_items' = <<>>
    /\ offset' = 0
    /\ batch' = <<>>
    /\ data' = NoData
    /\ retriesLeft' = 0
    /\ hiccups' = 0
    /\ exc' = "none"
    /\ warnings' = 0
    /\ startFile' = file
    /\ startOffset' = 0
    /\ reqOffsets' = {}
    /\ reqCounts' = {}
    /\ okOffsets' = <<>>
    /\ sent' = 0
    /\ allRetryable' = TRUE
    /\ ckptBefore' = file
    /\ stoppedAt' = "none"
    /\ UNCHANGED <<env, file>>

Next ==
    \/ Clamp
    \/ Start
    \/ Request
    \/ Respond
    \/ RetryableStatus
    \/ ConnectionFails
    \/ OtherErrorStatus
    \/ Hiccup
    \/ Parse
    \/ Merge
    \/ WriteOpen
    \/ WriteData
    \/ WriteFails
    \/ CheckTotal
    \/ Unlink
    \/ Interrupt
    \/ Crash
    \/ Rerun

Spec == Init /\ [][Next]_vars

\* one run that nothing cuts short: the thread keeps executing
Run ==
    \/ Clamp
    \/ Start
    \/ Request
    \/ Respond
    \/ RetryableStatus
    \/ ConnectionFails
    \/ OtherErrorStatus
    \/ Hiccup
    \/ Parse
    \/ Merge
    \/ WriteOpen
    \/ WriteData
    \/ CheckTotal
    \/ Unlink

\* a run with no checkpoint on disk, against an unchanging collection
FreshInit == Init /\ file = Absent /\ remote = "stable"

RunSpec == FreshInit /\ [][Run]_vars /\ WF_vars(Run)

\* a run on no checkpoint or on a checkpoint an earlier run wrote, against
\* an unchanging collection
StableInit ==
    /\ Init
    /\ remote = "stable"
    /\ file \in {Absent} \cup {File(Str(k)) : k \in 1..(MaxN + 1)}

StableSpec == StableInit /\ [][Run]_vars /\ WF_vars(Run)

\* the loop of lines 155-185 when no attempt fails, against an unchanging
\* collection of n items with page size p, entered with offset off: the
\* offsets it requests and the items it accumulates
RECURSIVE CleanOffsets(_, _, _)
CleanOffsets(off, n, p) ==
    LET page == StablePage(n, off, p)
    IN  IF page = <<>> THEN <<off>>
        ELSE IF off + Len(page) >= n THEN <<off>>
        ELSE <<off>> \o CleanOffsets(off + Len(page), n, p)

RECURSIVE CleanItems(_, _, _)
CleanItems(off, n, p) ==
    LET page == StablePage(n, off, p)
    IN  IF page = <<>> THEN <<>>
        ELSE IF off + Len(page) >= n THEN page
        ELSE page \o CleanItems(off + Len(page), n, p)

(***************************************************************************)
(* Properties.                                                             *)
(***************************************************************************)
Ceil(n, p) == (n + p - 1) \div p

FreshRun == ~startFile.exists
StableRemote == remote = "stable"

\* C1: a run started on a checkpoint holding offset O issues no request with
\* an offset below O.
C1_ResumeNeverRefetches ==
    \A O \in 0..(MaxN + 1) :
        startFile = File(Str(O)) => \A o \in reqOffsets : o >= O

C1_Witness ==
    /\ startFile = File(Str(2))
    /\ 2 \in reqOffsets
    /\ \E o \in reqOffsets : o > 2

\* C2: a fresh run against an unchanging collection of N items that nothing
\* cuts short ends, whatever attempts failed on the way, and returns the N
\* items of the collection, each once, in order.
C2_CompleteRetrieval ==
    /\ [](FreshRun /\ StableRemote /\ pc = "done" => all_items = Range(1, N))
    /\ (FreshRun /\ StableRemote ~> pc = "done")

C2_Witness ==
    /\ FreshRun /\ StableRemote /\ pc = "done"
    /\ N = MaxN /\ batch_size = 2
    /\ all_items = Range(1, MaxN)

\* C3 as stated: a fresh run against an unchanging collection of N items
\* ends after exactly ceil(N/P) successful fetches, the k-th at (k-1)*P.
C3_ExactPageCount ==
    FreshRun /\ StableRemote /\ pc = "done" =>
        /\ Len(okOffsets) = Ceil(N, batch_size)
        /\ \A k \in 1..Len(okOffsets) : okOffsets[k] = (k - 1) * batch_size

\* C3 amended: ceil(N/P) successful fetches when N >= 1 and one when N = 0,
\* the k-th at offset (k-1)*P, and never more than that during the run.
C3_PageCount ==
    FreshRun /\ StableRemote =>
        /\ Len(okOffsets) <= Max(1, Ceil(N, batch_size))
        /\ pc = "done" => Len(okOffsets) = Max(1, Ceil(N, batch_size))
        /\ \A k \in 1..Len(okOffsets) : okOffsets[k] = (k - 1) * batch_size

C3_Witness ==
    /\ FreshRun /\ StableRemote /\ pc = "done"
    /\ N = 4 /\ batch_size = 2
    /\ okOffsets = <<0, 2>>

\* C4: when every attempt for a page is answered with a retryable status,
\* no attempt is made beyond the configured maximum (the first attempt and
\* the RetryTotal retries of the adapter): the run has failed by then.
C4_RetryExhaustionEndsRun ==
    allRetryable => sent <= RetryTotal + 1

\* C5: a non-retryable error status or a body that does not parse stops
\* the run as failed, with the checkpoint at the last completed offset.
C5_FatalFetchErrorHalts ==
    exc \in {"HTTPError4xx", "JSONDecodeError", "AttributeError", "ValueError"} =>
        pc = "failed" /\ ReadCheckpoint(file) = offset

\* C6: when fetch_pocket_items has returned, the checkpoint is absent and
\* reads as 0.
C6_CheckpointClearedOnSuccess ==
    pc = "done" => ~file.exists /\ ReadCheckpoint(file) = 0

C6_Witness ==
    /\ pc = "done"
    /\ startOffset > 0
    /\ Len(all_items) > 0
    /\ ~file.exists

EmptyPage == data.kind = "json" /\ data.list = <<>>

\* C7: after a response with no items, whatever total it reports, no
\* further request is issued, nothing is added to the accumulated list, and
\* the run goes on to remove the checkpoint and return, unless it is cut
\* short.
C7_ZeroItemPageTerminates ==
    [][EmptyPage /\ pc \in {"parse", "unlink"} =>
          /\ pc' \in {"unlink", "done", "interrupted", "crashed"}
          /\ pc = "parse" => pc' # "done"
          /\ pc' = "done" => ~file'.exists
          /\ all_items' = all_items
          /\ reqOffsets' = reqOffsets
          /\ okOffsets' = okOffsets]_vars

C7_Witness ==
    /\ EmptyPage
    /\ pc = "done"
    /\ data.total.kind = "int"
    /\ data.total.val > offset
    /\ Len(all_items) > 0

ClampDone == pc # "clamp" /\ stoppedAt # "clamp"

\* C8: a batch size above 30 is sent as 30 in every request of the run,
\* with one warning for the run and no error; a batch size up to 30 is sent
\* as it is, with no warning.
C8_Clamping ==
    /\ reqCounts \subseteq {Min(requested, MAX_BATCH)}
    /\ warnings = IF ClampDone /\ requested > MAX_BATCH THEN 1 ELSE 0
    /\ pc = "failed" => stoppedAt # "clamp"

C8_Witness ==
    /\ requested = 50
    /\ reqCounts = {MAX_BATCH}
    /\ warnings = 1
    /\ Len(okOffsets) >= 2
    /\ pc = "done"

\* what _read_checkpoint gave before the last write began, and what that
\* write was to leave
OldOffset == ReadCheckpoint(ckptBefore)
NewOffset == offset

\* C9: an interrupt anywhere in the fetch loop leaves the checkpoint in
\* place, holding the last completed offset that was persisted.
C9_InterruptKeepsCheckpoint ==
    pc = "interrupted" /\ stoppedAt \in InLoop =>
        /\ ckptBefore.exists => file.exists
        /\ ReadCheckpoint(file) \in {OldOffset, NewOffset}

\* C10: after a crash during _write_checkpoint(new) over old, the
\* checkpoint reads as old or as new.
C10_CrashConsistentWrite ==
    pc = "crashed" /\ stoppedAt \in {"write_open", "write_data"} =>
        ReadCheckpoint(file) \in {OldOffset, NewOffset}

\* C11: when _write_checkpoint fails after a page was merged, the run stops
\* as failed with the error; no request is issued at the offset that was not
\* persisted, and that run does not go on to return.
C11_WriteFailureIsFatal ==
    [][/\ pc \in {"write_open", "write_data"} /\ exc' = "OSError" =>
             /\ pc' = "failed"
             /\ offset' \notin reqOffsets'
             /\ UNCHANGED <<offset, all_items, file, reqOffsets, okOffsets>>
       /\ exc = "OSError" => pc = "failed" /\ pc' = "clamp"]_vars

C11_Witness ==
    /\ pc = "failed"
    /\ exc = "OSError"
    /\ stoppedAt = "write_data"
    /\ Len(okOffsets) >= 2
    /\ offset \notin reqOffsets

StaleStart == \E O \in 0..(MaxN + 1) : startFile = File(Str(O)) /\ O >= N

StaleRunShort ==
    StableRemote /\ StaleStart =>
        /\ Len(okOffsets) <= 1
        /\ all_items = <<>>
        /\ pc \notin {"merge", "write_open", "write_data", "check_total", "failed",
                       "crashed"}
        /\ okOffsets # <<>> => pc \in {"parse", "unlink", "done", "interrupted"}
        /\ pc = "done" => ~file.exists /\ Len(okOffsets) = 1

\* C12: a run started on a checkpoint O >= N against an unchanging
\* collection of N items makes at most one successful fetch, merges
\* nothing, writes no checkpoint, does not fail, and once that fetch is
\* answered only removes the checkpoint and returns; it does return.
C12_StaleResumeTerminates ==
    /\ []StaleRunShort
    /\ (StableRemote /\ StaleStart ~> pc = "done")

C12_Witness ==
    /\ StableRemote
    /\ startFile = File(Str(MaxN))
    /\ N = MaxN
    /\ pc = "done"
    /\ okOffsets = <<MaxN>>
    /\ all_items = <<>>
    /\ ~file.exists

\* C13: the number of accumulated items is the current offset minus the
\* offset read at run start, in every state of a run.
C13_AccumulationInvariant ==
    Len(all_items) = offset - startOffset

C13_Witness ==
    /\ pc = "sleep"
    /\ startOffset = 1
    /\ offset = 3
    /\ Len(all_items) = 2
    /\ Len(okOffsets) = 2

\* C14: a checkpoint present on storage reads as the offset of run start or
\* as the offset reached after one of the merged pages, never as more than
\* the offset in memory; and a request issued after a successful page finds
\* the checkpoint at the offset it carries.
C14_CheckpointTracksPages ==
    /\ file.exists /\ pc # "done" =>
           /\ ReadCheckpoint(file) \in
                  {ReadCheckpoint(startFile)}
                  \cup {okOffsets[k] : k \in 1..Len(okOffsets)}
                  \cup (IF okOffsets # <<>> THEN {offset} ELSE {})
           /\ okOffsets # <<>> => ReadCheckpoint(file) <= offset
    /\ pc \in {"request", "transport", "sleep"} /\ offset # startOffset =>
           file.exists /\ ReadCheckpoint(file) = offset

\* C15: an attempt that fails leaves the offset, the accumulated list, the
\* checkpoint and the page size as they were, and the attempt that follows
\* carries the same offset and the same page size.
C15_FailedAttemptsChangeNothing ==
    [][/\ pc = "transport" /\ pc' \in {"transport", "sleep"} =>
             UNCHANGED <<offset, all_items, file, batch_size, reqOffsets, reqCounts>>
       /\ pc = "sleep" /\ pc' # "interrupted" =>
             /\ pc' = "request"
             /\ UNCHANGED <<offset, all_items, file, batch_size, reqOffsets, reqCounts>>
       /\ pc = "request" /\ hiccups > 0 /\ pc' # "interrupted" =>
             /\ pc' = "transport"
             /\ offset \in reqOffsets /\ batch_size \in reqCounts
             /\ UNCHANGED <<offset, all_items, file, batch_size, reqOffsets, reqCounts>>
      ]_vars

C15_Witness ==
    /\ pc = "transport"
    /\ hiccups > 0
    /\ exc = "none"
    /\ Len(all_items) > 0
    /\ file = File(Str(offset))

IsPrefix(a, b) == Len(a) <= Len(b) /\ SubSeq(b, 1, Len(a)) = a

\* C16: against an unchanging collection a run whose attempts fail finitely
\* often returns, and it returns the list, has issued its successful
\* requests at the offsets, and leaves the checkpoint absent, as the run in
\* which no attempt fails does; on the way its list and its successful
\* requests are the beginning of that run's.
C16_RetriesInvisible ==
    /\ [](/\ IsPrefix(all_items, CleanItems(startOffset, N, batch_size))
          /\ IsPrefix(okOffsets, CleanOffsets(startOffset, N, batch_size))
          /\ pc = "done" =>
                /\ all_items = CleanItems(startOffset, N, batch_size)
                /\ okOffsets = CleanOffsets(startOffset, N, batch_size)
                /\ ~file.exists)
    /\ <>(pc = "done")

\* the last request of a resumed run of two pages, sent again after a
\* failed attempt
C16_Witness ==
    /\ pc = "transport"
    /\ hiccups > 0
    /\ startOffset = 1
    /\ okOffsets = <<1>>
    /\ CleanOffsets(startOffset, N, batch_size) = <<1, offset>>

\* C17: whatever the checkpoint file holds at run start, _read_checkpoint
\* gives an integer >= 0, and every offset requested or written is >= 0.
C17_OffsetNeverNegative ==
    /\ startOffset >= 0
    /\ pc \notin {"clamp", "read_ckpt"} => offset >= 0
    /\ \A o \in reqOffsets : o >= 0
    /\ file.exists /\ file # startFile => ReadCheckpoint(file) >= 0

\* C18: after a page with at least one item is merged and persisted, the
\* loop is left exactly when the new offset has reached the total that this
\* response reports, and otherwise the next request carries the new offset.
C18_TerminationCheck ==
    [][/\ pc = "check_total" /\ data.total.kind = "int" /\ pc' # "interrupted" =>
             /\ batch # <<>>
             /\ data.list = batch
             /\ offset >= data.total.val => pc' = "unlink"
             /\ offset < data.total.val => pc' = "request"
             /\ UNCHANGED <<offset, all_items, file>>
       /\ pc = "request" /\ pc' = "transport" =>
             reqOffsets' = reqOffsets \cup {offset} /\ offset' = offset
      ]_vars

\* the run ends on a total that is no more than the offset of the request
\* just answered, which the total reported before it exceeded
C18_Witness ==
    /\ pc = "unlink"
    /\ batch # <<>>
    /\ Len(okOffsets) >= 2
    /\ data.total.kind = "int"
    /\ data.total.val <= okOffsets[Len(okOffsets)]
    /\ offset < N

\* C19: the offset in memory never decreases once it is set, and each
\* value written to the checkpoint is the offset in memory and is greater
\* than what the checkpoint read as before that write.
C19_OffsetMonotonic ==
    [][/\ pc \notin {"clamp", "read_ckpt"} /\ pc' # "clamp" => offset' >= offset
       /\ pc = "merge" /\ pc' = "write_open" => offset' > offset
       /\ pc = "write_data" /\ pc' = "check_total" =>
             /\ file' = File(Str(offset))
             /\ ReadCheckpoint(file') > ReadCheckpoint(ckptBefore)
      ]_vars

C19_Witness ==
    /\ pc = "check_total"
    /\ Len(okOffsets) >= 2
    /\ ckptBefore = File(Str(okOffsets[Len(okOffsets)]))
    /\ file = File(Str(offset))
    /\ ckptBefore # startFile

\* C20: a run started on checkpoint O, 0 < O <= N, against an unchanging
\* collection of N items returns the items at positions O..N-1 and none
\* before them, with the checkpoint removed.
C20_ResumedRunReturnsTail ==
    \A O \in 1..MaxN :
        StableRemote /\ startFile = File(Str(O)) /\ O <= N /\ pc = "done" =>
            /\ all_items = Range(O + 1, N)
            /\ Len(all_items) = N - O
            /\ \A i \in 1..Len(all_items) : all_items[i] > O
            /\ ~file.exists

C20_Witness ==
    /\ StableRemote
    /\ startFile = File(Str(2))
    /\ N = 4
    /\ pc = "done"
    /\ all_items = <<3, 4>>

====
